---- MODULE Spec2Model ----
(***************************************************************************)
(* UGC Ad Director Assistant: the generation pipeline of App.tsx           *)
(* (handleGenerateAd), the form of InputForm.tsx that starts it, the       *)
(* video polling of geminiService.generateVideo and the WAV container of   *)
(* geminiService.generateSpeech.                                           *)
(*                                                                         *)
(* Spec is the application with a provider that honours the concept        *)
(* schema; AnyConceptSpec lets the concept response lack a field;          *)
(* VideoSpec is the video stage of plain runs, with the fairness of the    *)
(* event loop; WavSpec applies the WAV functions to bounded inputs.        *)
(*                                                                         *)
(* JavaScript runs a handler to completion between two awaits, so one      *)
(* action of this model is one such segment: the awaited call at `pc`      *)
(* returns (or rejects) and the code runs up to the next await.            *)
(* Strings are sequences of tokens, so that concatenation is \o and        *)
(* String.prototype.includes is membership of a token.                     *)
(***************************************************************************)
EXTENDS Integers, Sequences, FiniteSets, TLC

\* ------------------------------------------------------------------ bounds
\* Largest number of times the video job is observed not-done in one run.
MaxPolls == 3

\* Largest number of decoded audio bytes of a synthesised speech.
MaxAudioLen == 4

\* Largest numbers of generations and of edits submitted to the Model Creator.
MaxGens == 2
MaxEdits == 2

\* ------------------------------------------------------- program constants
TOTAL_STEPS == 8
MAX_ATTEMPTS == 3
POLLING_INTERVAL == 10000

\* generateSpeech: the format of the audio the TTS model returns
SAMPLE_RATE == 24000
NUM_CHANNELS == 1
BITS_PER_SAMPLE == 16

\* ------------------------------------------------------------ option type
NULL == <<>>
Some(x) == <<x>>

\* ------------------------------------------------------- strings as tokens
ToStr(n) == <<"0", "1", "2", "3", "4", "5", "6", "7", "8", "9">>[n + 1]

Includes(s, tok) == \E k \in 1..Len(s) : s[k] = tok

IsPrefix(s, t) == Len(s) <= Len(t) /\ SubSeq(t, 1, Len(s)) = s

NotFound == "Requested entity was not found"

\* Messages a rejected provider (or file reader) call can carry: an empty
\* message, an ordinary one, and the credential failure signature.
ErrMsgs == {<<>>, <<"provider error">>, <<NotFound>>}

\* Suggestions a validation verdict can carry.
Suggestions == {"fix-A", "fix-B"}

\* The opening-frame prompt returned by the concept stage.
ConceptPrompt == <<"opening frame prompt">>

\* A property missing from a parsed JSON object reads as undefined; string
\* concatenation and template literals render it as "undefined".
Undefined == <<"undefined">>

\* types.ts AdConcept, as generateAdConcept resolves when the provider
\* honours the response schema.
CompleteConcept ==
    [adTitle |-> <<"title">>, adIdea |-> <<"idea">>,
     adDescription |-> <<"description">>, openingFramePrompt |-> ConceptPrompt]

ConceptFields == {"adTitle", "adIdea", "adDescription", "openingFramePrompt"}

MissingFields(c) == {f \in ConceptFields : c[f] = Undefined}

\* JSON.parse(result.text) of generateAdConcept: the parsed object, which
\* has the fields the provider wrote. Here: all of them, or all but one.
ConceptResponses ==
    {CompleteConcept} \cup
    {[CompleteConcept EXCEPT ![f] = Undefined] : f \in {"adTitle", "openingFramePrompt"}}

AspectRatios == {"9:16", "16:9"}

\* types.ts UserInput, reduced to the fields the control flow reads.
UserInput == [productImage : BOOLEAN, actorImage : BOOLEAN,
              generateVoiceover : BOOLEAN, aspectRatio : AspectRatios]

NoInput == [productImage |-> FALSE, actorImage |-> FALSE,
            generateVoiceover |-> FALSE, aspectRatio |-> "9:16"]

\* ------------------------------------------------------------------ events
\* The run's trace: progress updates, the calls awaited inside the try
\* block, timer waits and the publication of the outcome, in program order.
Ev(t, op, step, n, arg) == [t |-> t, op |-> op, step |-> step, n |-> n, arg |-> arg]

Progress(step, msg, n) == Ev("progress", msg, step, n, <<>>)
Call(op, n, arg) == Ev("call", op, 0, n, arg)
Wait == Ev("wait", "setTimeout", 0, POLLING_INTERVAL, <<>>)
Outcome(op) == Ev("outcome", op, 0, 0, <<>>)
Reset == Ev("reset", "setProgress", 0, 0, <<>>)

\* ProgressUpdate values
Idle == [step |-> 0, message |-> "", n |-> 0]
Update(step, msg, n) == [step |-> step, message |-> msg, n |-> n]

MsgAnalyzing == "Analyzing images..."
MsgConcept == "Generating ad concept..."
MsgFrame == "Generating opening frame (Attempt i/3)..."
MsgValidate == "Validating frame (Attempt i/3)..."
MsgScript == "Writing video script..."
MsgVideo == "Generating video (this may take a few minutes)..."
MsgVeoStart == "Starting video generation with Veo..."
MsgVeoInit == "Video processing initiated. This can take several minutes. Polling for status..."
MsgPoll == "Polling for video status (Attempt #n)..."
MsgVeoDone == "Video generated successfully! Fetching video data..."
MsgVoice == "Generating voiceover..."
MsgAssets == "Generating ad assets..."

\* ---------------------------------------------------------- pure functions
\* Variant: the form is forwarded whatever it holds.
FormAccepted_Always(fd) == TRUE

\* InputForm.handleSubmit: the form is forwarded only with a product image.
FormAccepted(fd) == fd.productImage

\* Variant: the note of the last failed attempt is the one of any failed
\* attempt (the i === 3 case is missing).
QcNotesAfter_NoFinal(qc, k, v) ==
    IF v.isValid
    THEN IF k > 1 THEN <<"QC passed on attempt ", ToStr(k), ".">> ELSE qc
    ELSE <<"Attempt ", ToStr(k), " failed QC: ", v.suggestion, ". Refining prompt.">>

\* Variant: a valid verdict leaves the note as it is (line 95 missing).
QcNotesAfter_NoPassNote(qc, k, v) ==
    IF v.isValid
    THEN qc
    ELSE IF k = 3
         THEN <<"QC failed after 3 attempts. Using best available image. Final issue: ", v.suggestion>>
         ELSE <<"Attempt ", ToStr(k), " failed QC: ", v.suggestion, ". Refining prompt.">>

\* Variant: a valid verdict always writes the numbered note (i > 1 missing).
QcNotesAfter_AlwaysNumbered(qc, k, v) ==
    IF v.isValid
    THEN <<"QC passed on attempt ", ToStr(k), ".">>
    ELSE IF k = 3
         THEN <<"QC failed after 3 attempts. Using best available image. Final issue: ", v.suggestion>>
         ELSE <<"Attempt ", ToStr(k), " failed QC: ", v.suggestion, ". Refining prompt.">>

\* The body of the QC loop after validateImage returned v on attempt k.
QcNotesAfter(qc, k, v) ==
    IF v.isValid
    THEN IF k > 1 THEN <<"QC passed on attempt ", ToStr(k), ".">> ELSE qc
    ELSE IF k = 3
         THEN <<"QC failed after 3 attempts. Using best available image. Final issue: ", v.suggestion>>
         ELSE <<"Attempt ", ToStr(k), " failed QC: ", v.suggestion, ". Refining prompt.">>

\* Variant: a fix replaces the fixes appended before it.
PromptAfter_Replace(p, k, v) ==
    IF v.isValid THEN p ELSE <<p[1]>> \o <<". IMPORTANT FIX: ", v.suggestion>>

PromptAfter(p, k, v) ==
    IF v.isValid THEN p ELSE p \o <<". IMPORTANT FIX: ", v.suggestion>>

\* Variant: the loop has no break.
LoopExits_NoBreak(k, v) == ~(k + 1 <= MAX_ATTEMPTS)

\* for (let i = 1; i <= 3; i++) with break on a valid verdict
LoopExits(k, v) == v.isValid \/ ~(k + 1 <= MAX_ATTEMPTS)

\* catch block: e.message || "An unknown error occurred."
ErrorMessage(e) == IF e = <<>> THEN <<"An unknown error occurred.">> ELSE e

\* Variant: the message is compared with the signature instead of searched.
IsCredentialError_Exact(e) == e = <<NotFound>>

\* e.message?.includes("Requested entity was not found")
IsCredentialError(e) == Includes(e, NotFound)

CredentialMessage == <<"API Key not found or invalid. Please select a valid API key and try again.">>

SurfacedError(e) == IF IsCredentialError(e) THEN CredentialMessage ELSE ErrorMessage(e)

\* Variant: the result URI is tested before the error.
VideoOutcome_UriFirst(op) ==
    IF ~op.uri THEN "nouri"
    ELSE IF op.error # NULL THEN "error"
    ELSE "ok"

\* generateVideo, after the poll loop: what a done operation leads to.
VideoOutcome(op) ==
    IF op.error # NULL THEN "error"
    ELSE IF ~op.uri THEN "nouri"
    ELSE "ok"

VideoErrorMessage(outcome, op) ==
    IF outcome = "error"
    THEN <<"Video generation failed: ">> \o (IF op.error[1] = <<>> THEN <<"Unknown error">> ELSE op.error[1])
    ELSE <<"Video generation completed, but no video URI was found.">>

\* Variant: the counter is read but not incremented.
NextPollCount_Stuck(c) == c

\* pollCount++ in the poll message
NextPollCount(c) == c + 1

\* ------------------------------------------------------------ WAV container
\* Byte k (0 = least significant) of the non-negative integer v.
ByteOf(v, k) == (v \div (256 ^ k)) % 256

\* Variant: the 32-bit fields are written big-endian (littleEndian omitted).
setUint32_BigEndian(v) == <<ByteOf(v, 3), ByteOf(v, 2), ByteOf(v, 1), ByteOf(v, 0)>>

\* DataView.setUint32(offset, v, true): the low 32 bits of v, little-endian.
setUint32(v) == <<ByteOf(v, 0), ByteOf(v, 1), ByteOf(v, 2), ByteOf(v, 3)>>

\* DataView.setUint16(offset, v, true)
setUint16(v) == <<ByteOf(v, 0), ByteOf(v, 1)>>

\* The character codes written by setUint8.
RIFF == <<82, 73, 70, 70>>
WAVE == <<87, 65, 86, 69>>
FMT == <<102, 109, 116, 32>>
DATA == <<100, 97, 116, 97>>

\* getWavHeader: the 44 bytes of the header, in offset order.
getWavHeader(len, sampleRate, numChannels, bitsPerSample) ==
    LET blockAlign == (numChannels * bitsPerSample) \div 8
        byteRate == sampleRate * blockAlign
    IN RIFF \o setUint32(36 + len) \o WAVE
       \o FMT \o setUint32(16) \o setUint16(1) \o setUint16(numChannels)
       \o setUint32(sampleRate) \o setUint32(byteRate)
       \o setUint16(blockAlign) \o setUint16(bitsPerSample)
       \o DATA \o setUint32(len)

\* generateSpeech lines 339-347: the header for the decoded audio, then the
\* audio itself (wavBytes.set(header, 0); wavBytes.set(audio, header.length)).
WavOf(audio) ==
    getWavHeader(Len(audio), SAMPLE_RATE, NUM_CHANNELS, BITS_PER_SAMPLE) \o audio

\* Decoded audio of a speech response: up to MaxAudioLen bytes.
SampleBytes == {0, 127, 255}

AudioInputs == UNION {[1..n -> SampleBytes] : n \in 0..MaxAudioLen}

\* Data lengths at which each byte of a 32-bit field changes.
DataLengths == {0, 1, 219, 220, 255, 256, 65535, 65536, 16777215, 16777216, 305419896}

\* --------------------------------------------------------------- responses
\* generateAdAssets responses: JSON.parse of a text that follows the
\* response schema (two arrays of strings). A hashtag is a token sequence;
\* one written with its marker starts with the token "#".
Copies(n) == [k \in 1..n |-> <<"copy ", ToStr(k)>>]

Tags(n) == [k \in 1..n |-> <<"tag", ToStr(k)>>]

RequestedAssets == [adCopyVariations |-> Copies(3), hashtags |-> Tags(5)]

AssetResponses ==
    {RequestedAssets,
     [RequestedAssets EXCEPT !.hashtags[2] = <<"#">> \o @],
     [RequestedAssets EXCEPT !.adCopyVariations = Copies(2)],
     [RequestedAssets EXCEPT !.hashtags = Tags(4)]}

\* validateImage responses: a valid verdict (its suggestion is never read)
\* or an invalid one with a suggestion.
Verdicts == {[isValid |-> TRUE, suggestion |-> ""]} \cup
            [isValid : {FALSE}, suggestion : Suggestions]

NotDone == [done |-> FALSE, error |-> NULL, uri |-> FALSE]

DoneOps == [done : {TRUE}, error : {NULL} \cup {Some(m) : m \in ErrMsgs}, uri : BOOLEAN]

\* ------------------------------------------------------------------- state
VARIABLES
    \* App component state
    isLoading, progress, error, result, apiKeySelected,
    \* host environment: window.aistudio present; App mounted effect ran
    aistudio, mounted,
    \* handleGenerateAd: position and locals
    pc, data, actorImageData, openingFramePrompt, openingFrameData, qcNotes,
    i, veoPrompt, operation, pollCount, voiceoverUrl,
    \* history of the current run
    events, verdicts, jobSeen, thrown,
    \* the last submission: whether it had a product image, its entry point,
    \* whether it alerted
    submitted, via, alerted,
    \* what generateAdConcept and generateAdAssets resolved with in this run
    conceptSeen, assetsSeen,
    \* generateSpeech: the decoded audio and the WAV bytes made of it;
    \* getWavHeader: its dataLength argument and the header it returned
    audioBytes, wavBytes, dataLength, header,
    \* ModelCreator component state
    fashionPhoto, headshot, mcIsLoading, isEditing, mcError, mcResult,
    editPrompt, promptHistory,
    \* ModelCreator.handleSubmit: position; handleEditSubmit: position and the
    \* values its closure captured (result.imageUrl, editPrompt)
    genPc, editPc, editBase, editText,
    \* history of the Model Creator: generations and edits submitted, whether
    \* the form alerted, how the last edit ended, the result and history when
    \* it was submitted, whether handleSubmit wrote them since
    genCount, editCount, mcAlerted, lastEdit, editSnap, genTouched

appVars == <<isLoading, progress, error, result, apiKeySelected>>
envVars == <<aistudio, mounted>>
locals == <<data, actorImageData, openingFramePrompt, openingFrameData, qcNotes,
            i, veoPrompt, operation, pollCount, voiceoverUrl>>
history == <<events, verdicts, jobSeen, thrown, submitted, via, alerted,
            conceptSeen, assetsSeen>>
wavVars == <<audioBytes, wavBytes, dataLength, header>>
mcState == <<fashionPhoto, headshot, mcIsLoading, isEditing, mcError, mcResult,
             editPrompt, promptHistory>>
mcHandlers == <<genPc, editPc, editBase, editText>>
mcHistory == <<genCount, editCount, mcAlerted, lastEdit, editSnap, genTouched>>
mcVars == <<mcState, mcHandlers, mcHistory>>
vars == <<appVars, envVars, pc, locals, history, wavVars, mcVars>>

\* App after construction (useState initial values), no run started.
AppInit ==
    /\ isLoading = FALSE
    /\ progress = Idle
    /\ error = NULL
    /\ result = NULL
    /\ apiKeySelected = "null"
    /\ aistudio \in BOOLEAN
    /\ mounted = FALSE
    /\ pc = "idle"
    /\ data = NoInput
    /\ actorImageData = FALSE
    /\ openingFramePrompt = <<>>
    /\ openingFrameData = NULL
    /\ qcNotes = <<>>
    /\ i = 0
    /\ veoPrompt = NULL
    /\ operation = NotDone
    /\ pollCount = 0
    /\ voiceoverUrl = NULL
    /\ events = <<>>
    /\ verdicts = <<>>
    /\ jobSeen = <<>>
    /\ thrown = NULL
    /\ submitted = ""
    /\ via = ""
    /\ alerted = FALSE
    /\ conceptSeen = NULL
    /\ assetsSeen = NULL

\* No speech has been synthesised.
NoSpeech ==
    /\ audioBytes = <<>>
    /\ wavBytes = <<>>
    /\ dataLength = 0
    /\ header = <<>>

\* A generated or edited model image: the generation it derives from and
\* the edit instructions applied to it since.
NoImage == [gen |-> 0, edits |-> <<>>]

\* ModelCreator after construction (useState initial values).
McInit ==
    /\ fashionPhoto = FALSE
    /\ headshot = FALSE
    /\ mcIsLoading = FALSE
    /\ isEditing = FALSE
    /\ mcError = NULL
    /\ mcResult = NULL
    /\ editPrompt = <<>>
    /\ promptHistory = <<>>
    /\ genPc = "idle"
    /\ editPc = "idle"
    /\ editBase = NoImage
    /\ editText = <<>>
    /\ genCount = 0
    /\ editCount = 0
    /\ mcAlerted = FALSE
    /\ lastEdit = "none"
    /\ editSnap = [result |-> NULL, history |-> <<>>]
    /\ genTouched = FALSE

Init == AppInit /\ NoSpeech /\ McInit

\* Fresh locals of a new invocation of handleGenerateAd(d).
FreshLocals(d) ==
    /\ data' = d
    /\ actorImageData' = FALSE
    /\ openingFramePrompt' = <<>>
    /\ openingFrameData' = NULL
    /\ qcNotes' = <<>>
    /\ i' = 0
    /\ veoPrompt' = NULL
    /\ operation' = NotDone
    /\ pollCount' = 0
    /\ voiceoverUrl' = NULL
    /\ verdicts' = <<>>
    /\ jobSeen' = <<>>
    /\ thrown' = NULL
    /\ conceptSeen' = NULL
    /\ assetsSeen' = NULL

\* ------------------------------------------------------ App: mount effect
\* useEffect checkApiKey: apiKeySelected becomes hasSelectedApiKey() under
\* AI Studio (asynchronously) and true elsewhere (within the effect itself).
checkApiKey ==
    /\ ~mounted
    /\ mounted' = TRUE
    /\ \E hasKey \in BOOLEAN :
          apiKeySelected' = IF aistudio THEN (IF hasKey THEN "true" ELSE "false") ELSE "true"
    /\ UNCHANGED <<isLoading, progress, error, result, aistudio, pc, locals, history, wavVars, mcVars>>

\* Outside AI Studio the effect has no await: it has run before any event
\* of the user is handled.
EffectRan == aistudio \/ mounted

\* The "Select API Key" button, rendered while apiKeySelected === false.
handleSelectKey ==
    /\ apiKeySelected = "false"
    /\ aistudio
    /\ apiKeySelected' = "true"
    /\ UNCHANGED <<isLoading, progress, error, result, envVars, pc, locals, history, wavVars, mcVars>>

\* --------------------------------------------------- handleGenerateAd: ends
\* Variant: the catch block logs the error and does not set it.
Catch_NoSetError(stage, e) ==
    /\ error' = NULL
    /\ apiKeySelected' = IF IsCredentialError(e) THEN "false" ELSE apiKeySelected
    /\ isLoading' = FALSE
    /\ progress' = Idle
    /\ pc' = "idle"
    /\ thrown' = Some([stage |-> stage, message |-> e])
    /\ UNCHANGED result

\* Variant: the finally block does not reset the progress.
Catch_NoReset(stage, e) ==
    /\ error' = Some(SurfacedError(e))
    /\ apiKeySelected' = IF IsCredentialError(e) THEN "false" ELSE apiKeySelected
    /\ isLoading' = FALSE
    /\ pc' = "idle"
    /\ thrown' = Some([stage |-> stage, message |-> e])
    /\ UNCHANGED <<result, progress>>

\* catch (e) { ... setError(errorMessage) } finally { setIsLoading(false);
\* setProgress({step: 0, message: ''}) }, run when the call `stage` threw e.
Catch(stage, e) ==
    /\ error' = Some(SurfacedError(e))
    /\ apiKeySelected' = IF IsCredentialError(e) THEN "false" ELSE apiKeySelected
    /\ isLoading' = FALSE
    /\ progress' = Idle
    /\ pc' = "idle"
    /\ thrown' = Some([stage |-> stage, message |-> e])
    /\ UNCHANGED result

\* The trace of the catch and finally blocks.
CatchEvents == <<Outcome("setError"), Reset>>

\* Variant: the voiceover URL is not copied into the output.
FinalOutput_NoVoice(voice, assets) ==
    [opening_frame_prompt |-> openingFramePrompt,
     opening_frame_image_url |-> openingFrameData[1],
     veo_prompt |-> veoPrompt[1],
     qc_notes |-> qcNotes,
     aspect_ratio |-> data.aspectRatio,
     ad_copy_variations |-> assets.adCopyVariations,
     hashtags |-> assets.hashtags,
     voiceover_audio_url |-> NULL]

\* Variant: the output takes its hashtags from the ad-copy list.
FinalOutput_CopyAsTags(voice, assets) ==
    [opening_frame_prompt |-> openingFramePrompt,
     opening_frame_image_url |-> openingFrameData[1],
     veo_prompt |-> veoPrompt[1],
     qc_notes |-> qcNotes,
     aspect_ratio |-> data.aspectRatio,
     ad_copy_variations |-> assets.adCopyVariations,
     hashtags |-> assets.adCopyVariations,
     voiceover_audio_url |-> voice]

\* types.ts FinalOutput, reduced to the fields the pipeline computes.
FinalOutput(voice, assets) ==
    [opening_frame_prompt |-> openingFramePrompt,
     opening_frame_image_url |-> openingFrameData[1],
     veo_prompt |-> veoPrompt[1],
     qc_notes |-> qcNotes,
     aspect_ratio |-> data.aspectRatio,
     ad_copy_variations |-> assets.adCopyVariations,
     hashtags |-> assets.hashtags,
     voiceover_audio_url |-> voice]

\* ------------------------------------------------- handleGenerateAd: entry
\* Lines 50-66 up to the first await: the credential pre-check under
\* AI Studio, else the read of the product image inside the try block.
EnterTry == <<Progress(1, MsgAnalyzing, 0), Call("fileToBase64", 0, <<"product">>)>>

\* Variant: an earlier error is kept when a run starts.
handleGenerateAd_KeepsError(d) ==
    /\ pc = "idle"
    /\ ~isLoading
    /\ EffectRan
    /\ isLoading' = TRUE
    /\ UNCHANGED error
    /\ result' = NULL
    /\ FreshLocals(d)
    /\ IF aistudio
       THEN /\ pc' = "hasSelectedApiKey"
            /\ events' = <<>>
            /\ UNCHANGED progress
       ELSE /\ pc' = "readProduct"
            /\ events' = EnterTry
            /\ progress' = Update(1, MsgAnalyzing, 0)
    /\ UNCHANGED <<apiKeySelected, envVars, wavVars, mcVars>>

\* Variant: an earlier result is kept when a run starts.
handleGenerateAd_KeepsResult(d) ==
    /\ pc = "idle"
    /\ ~isLoading
    /\ EffectRan
    /\ isLoading' = TRUE
    /\ error' = NULL
    /\ UNCHANGED result
    /\ FreshLocals(d)
    /\ IF aistudio
       THEN /\ pc' = "hasSelectedApiKey"
            /\ events' = <<>>
            /\ UNCHANGED progress
       ELSE /\ pc' = "readProduct"
            /\ events' = EnterTry
            /\ progress' = Update(1, MsgAnalyzing, 0)
    /\ UNCHANGED <<apiKeySelected, envVars, wavVars, mcVars>>

\* Variant: the handler can be invoked while a run awaits the script.
handleGenerateAd_WhileLoading(d) ==
    /\ pc \in {"idle", "script"}
    /\ EffectRan
    /\ isLoading' = TRUE
    /\ error' = NULL
    /\ result' = NULL
    /\ FreshLocals(d)
    /\ IF aistudio
       THEN /\ pc' = "hasSelectedApiKey"
            /\ events' = events
            /\ UNCHANGED progress
       ELSE /\ pc' = "readProduct"
            /\ events' = events \o EnterTry
            /\ progress' = Update(1, MsgAnalyzing, 0)
    /\ UNCHANGED <<apiKeySelected, envVars, wavVars, mcVars>>

\* handleGenerateAd up to its first await (lines 49-66). InputForm disables
\* its button while isLoading, so no invocation starts during a run.
handleGenerateAd(d) ==
    /\ pc = "idle"
    /\ ~isLoading
    /\ EffectRan
    /\ isLoading' = TRUE
    /\ error' = NULL
    /\ result' = NULL
    /\ FreshLocals(d)
    /\ IF aistudio
       THEN /\ pc' = "hasSelectedApiKey"
            /\ events' = <<>>
            /\ UNCHANGED progress
       ELSE /\ pc' = "readProduct"
            /\ events' = EnterTry
            /\ progress' = Update(1, MsgAnalyzing, 0)
    /\ UNCHANGED <<apiKeySelected, envVars, wavVars, mcVars>>

HasImage(fd) == IF fd.productImage THEN "image" ELSE "noimage"

\* InputForm.handleSubmit: alert and return without a product image, else
\* onSubmit(formData). The button is disabled while isLoading.
handleSubmit(fd) ==
    IF FormAccepted(fd)
    THEN /\ handleGenerateAd(fd)
         /\ submitted' = HasImage(fd)
         /\ via' = "form"
         /\ alerted' = FALSE
    ELSE /\ pc = "idle"
         /\ ~isLoading
         /\ EffectRan
         /\ submitted' = HasImage(fd)
         /\ via' = "form"
         /\ alerted' = TRUE
         /\ UNCHANGED <<appVars, envVars, pc, locals, events, verdicts, jobSeen, thrown,
                        conceptSeen, assetsSeen, wavVars, mcVars>>

\* The onSubmit callback invoked with productImage = null, which its
\* parameter type (UserInput.productImage: File | null) admits.
onSubmitNoImage(d) ==
    /\ ~d.productImage
    /\ handleGenerateAd(d)
    /\ submitted' = HasImage(d)
    /\ via' = "callback"
    /\ alerted' = FALSE

\* await aistudio.hasSelectedApiKey() returned.
hasSelectedApiKeyReturns(hasKey) ==
    /\ pc = "hasSelectedApiKey"
    /\ IF hasKey
       THEN /\ pc' = "readProduct"
            /\ events' = events \o EnterTry
            /\ progress' = Update(1, MsgAnalyzing, 0)
       ELSE /\ pc' = "openSelectKey"
            /\ UNCHANGED <<events, progress>>
    /\ UNCHANGED <<isLoading, error, result, apiKeySelected, envVars, locals,
                   verdicts, jobSeen, thrown,
                   submitted, via, alerted,
                   conceptSeen, assetsSeen, wavVars, mcVars>>

\* await aistudio.openSelectKey() returned: the key is assumed selected.
openSelectKeyReturns ==
    /\ pc = "openSelectKey"
    /\ apiKeySelected' = "true"
    /\ pc' = "readProduct"
    /\ events' = events \o EnterTry
    /\ progress' = Update(1, MsgAnalyzing, 0)
    /\ UNCHANGED <<isLoading, error, result, envVars, locals, verdicts, jobSeen, thrown,
                   submitted, via, alerted,
                   conceptSeen, assetsSeen, wavVars, mcVars>>

\* Either credential call rejects: it is awaited outside the try block, so
\* the handler ends with an unhandled rejection and nothing is reset.
keyCheckRejects ==
    /\ pc \in {"hasSelectedApiKey", "openSelectKey"}
    /\ pc' = "abandoned"
    /\ UNCHANGED <<appVars, envVars, locals, history, wavVars, mcVars>>

\* ----------------------------------------------- handleGenerateAd: stage 1
\* A throw inside the try block: the catch and finally blocks run in the
\* same segment and the handler ends.
Throws(stage, e) ==
    /\ Catch(stage, e)
    /\ events' = events \o CatchEvents
    /\ UNCHANGED <<envVars, locals, verdicts, jobSeen, submitted, via, alerted,
                   conceptSeen, assetsSeen, wavVars, mcVars>>

ConceptStage == <<Progress(2, MsgConcept, 0), Call("generateAdConcept", 0, <<>>)>>

\* fileToBase64(data.productImage!) resolved (it needs a file to read).
readProductReturns ==
    /\ pc = "readProduct"
    /\ data.productImage
    /\ pc' = "analyzeProduct"
    /\ events' = Append(events, Call("analyzeImage", 0, <<"product">>))
    /\ UNCHANGED <<appVars, envVars, locals, verdicts, jobSeen, thrown, submitted, via, alerted,
                   conceptSeen, assetsSeen, wavVars, mcVars>>

\* fileToBase64 rejected: readAsDataURL(null) throws a TypeError inside the
\* promise executor; a reader error rejects with an event without message.
readRejects ==
    /\ pc \in {"readProduct", "readActor"}
    /\ Throws("fileToBase64",
              IF pc = "readProduct" /\ ~data.productImage
              THEN <<"TypeError: parameter 1 is not of type 'Blob'">>
              ELSE <<>>)

\* analyzeImage(productImageData) resolved.
analyzeProductReturns ==
    /\ pc = "analyzeProduct"
    /\ IF data.actorImage
       THEN /\ pc' = "readActor"
            /\ events' = Append(events, Call("fileToBase64", 0, <<"actor">>))
            /\ UNCHANGED progress
       ELSE /\ pc' = "concept"
            /\ events' = events \o ConceptStage
            /\ progress' = Update(2, MsgConcept, 0)
    /\ UNCHANGED <<isLoading, error, result, apiKeySelected, envVars, locals,
                   verdicts, jobSeen, thrown, submitted, via, alerted,
                   conceptSeen, assetsSeen, wavVars, mcVars>>

\* fileToBase64(data.actorImage) resolved.
readActorReturns ==
    /\ pc = "readActor"
    /\ actorImageData' = TRUE
    /\ pc' = "analyzeActor"
    /\ events' = Append(events, Call("analyzeImage", 0, <<"actor">>))
    /\ UNCHANGED <<appVars, envVars, data, openingFramePrompt, openingFrameData,
                   qcNotes, i, veoPrompt, operation, pollCount, voiceoverUrl,
                   verdicts, jobSeen, thrown, submitted, via, alerted,
                   conceptSeen, assetsSeen, wavVars, mcVars>>

\* analyzeImage(actorImageData) resolved.
analyzeActorReturns ==
    /\ pc = "analyzeActor"
    /\ pc' = "concept"
    /\ events' = events \o ConceptStage
    /\ progress' = Update(2, MsgConcept, 0)
    /\ UNCHANGED <<isLoading, error, result, apiKeySelected, envVars, locals,
                   verdicts, jobSeen, thrown, submitted, via, alerted,
                   conceptSeen, assetsSeen, wavVars, mcVars>>

\* ------------------------------------------------ handleGenerateAd: QC loop
\* Variant: the branches of the actor test are exchanged.
FrameCall_Inverted(k, p) ==
    IF ~actorImageData
    THEN Call("generateOpeningFrameWithActor", k, p)
    ELSE Call("generateImage", k, p)

\* Variant: only the first attempt composes with the actor.
FrameCall_ActorFirstOnly(k, p) ==
    IF actorImageData /\ k = 1
    THEN Call("generateOpeningFrameWithActor", k, p)
    ELSE Call("generateImage", k, p)

\* The head of loop iteration k with prompt p: progress 3 and the frame
\* generation call of the branch chosen by actorImageData.
FrameCall(k, p) ==
    IF actorImageData
    THEN Call("generateOpeningFrameWithActor", k, p)
    ELSE Call("generateImage", k, p)

\* Variant: the attempt reports the step of the script stage.
AttemptHead_WrongStep(k, p) == <<Progress(5, MsgFrame, k), FrameCall(k, p)>>

AttemptHead(k, p) == <<Progress(3, MsgFrame, k), FrameCall(k, p)>>

\* The frame a generation call produced: which call, from which prompt.
Frame(k, p) ==
    [gen |-> IF actorImageData THEN "generateOpeningFrameWithActor" ELSE "generateImage",
     prompt |-> p,
     attempt |-> k,
     mimeType |-> IF actorImageData THEN "provider" ELSE "image/jpeg",
     aspectRatio |-> IF actorImageData THEN "" ELSE data.aspectRatio]

\* Variant: a frame once stored is kept.
FrameAfter_KeepFirst(prev, k, p) == IF prev = NULL THEN Some(Frame(k, p)) ELSE prev

\* Variant: the produced frame is not stored.
FrameAfter_Dropped(prev, k, p) == NULL

\* openingFrameData = await ...: the frame of attempt k replaces prev.
FrameAfter(prev, k, p) == Some(Frame(k, p))

\* generateAdConcept resolved with the parsed object c: the loop starts
\* with i = 1 (lines 76-89; geminiService line 68 returns JSON.parse as is).
conceptResolves(c) ==
    /\ pc = "concept"
    /\ conceptSeen' = Some(c)
    /\ openingFramePrompt' = c.openingFramePrompt
    /\ openingFrameData' = NULL
    /\ qcNotes' = <<"QC passed on first attempt.">>
    /\ i' = 1
    /\ pc' = "genFrame"
    /\ progress' = Update(3, MsgFrame, 1)
    /\ events' = events \o AttemptHead(1, c.openingFramePrompt)
    /\ UNCHANGED <<isLoading, error, result, apiKeySelected, envVars, data,
                   actorImageData, veoPrompt, operation, pollCount, voiceoverUrl,
                   verdicts, jobSeen, thrown, submitted, via, alerted,
                   assetsSeen, wavVars, mcVars>>

\* generateAdConcept resolved with a response that follows its schema.
conceptReturns == conceptResolves(CompleteConcept)

\* The frame generation call resolved; without an image in the response
\* the service function throws.
frameReturns(hasImage) ==
    /\ pc = "genFrame"
    /\ IF hasImage
       THEN /\ openingFrameData' = FrameAfter(openingFrameData, i, openingFramePrompt)
            /\ pc' = "validate"
            /\ progress' = Update(4, MsgValidate, i)
            /\ events' = events \o <<Progress(4, MsgValidate, i), Call("validateImage", i, <<>>)>>
            /\ UNCHANGED <<isLoading, error, result, apiKeySelected, envVars, data,
                           actorImageData, openingFramePrompt, qcNotes, i, veoPrompt,
                           operation, pollCount, voiceoverUrl,
                           verdicts, jobSeen, thrown, submitted, via, alerted,
                   conceptSeen, assetsSeen, wavVars, mcVars>>
       ELSE Throws(IF actorImageData THEN "generateOpeningFrameWithActor" ELSE "generateImage",
                   IF actorImageData
                   THEN <<"Image generation with actor failed: No image data found in the response.">>
                   ELSE <<"Image generation failed to produce an image.">>)

\* Variant: the ad assets are requested while the script is being written.
ScriptStage_WithAssets(p) ==
    <<Progress(5, MsgScript, 0), Call("generateAdAssets", 0, <<>>),
      Call("generateVideoDirectorPrompt", 0, p)>>

ScriptStage(p) == <<Progress(5, MsgScript, 0), Call("generateVideoDirectorPrompt", 0, p)>>

\* validateImage resolved with verdict v: lines 94-111.
validateReturns(v) ==
    /\ pc = "validate"
    /\ LET qc == QcNotesAfter(qcNotes, i, v)
           p == PromptAfter(openingFramePrompt, i, v)
       IN IF ~LoopExits(i, v)
          THEN /\ qcNotes' = qc
               /\ openingFramePrompt' = p
               /\ i' = i + 1
               /\ pc' = "genFrame"
               /\ progress' = Update(3, MsgFrame, i + 1)
               /\ events' = events \o AttemptHead(i + 1, p)
               /\ verdicts' = Append(verdicts, v)
               /\ UNCHANGED <<isLoading, error, result, apiKeySelected, envVars, data,
                              actorImageData, openingFrameData, veoPrompt, operation,
                              pollCount, voiceoverUrl, jobSeen, thrown, submitted, via, alerted,
                   conceptSeen, assetsSeen, wavVars, mcVars>>
          ELSE IF openingFrameData = NULL
          THEN Throws("handleGenerateAd", <<"Failed to generate a valid opening frame.">>)
          ELSE /\ qcNotes' = qc
               /\ openingFramePrompt' = p
               /\ pc' = "script"
               /\ progress' = Update(5, MsgScript, 0)
               /\ events' = events \o ScriptStage(p)
               /\ verdicts' = Append(verdicts, v)
               /\ UNCHANGED <<isLoading, error, result, apiKeySelected, envVars, data,
                              actorImageData, openingFrameData, i, veoPrompt, operation,
                              pollCount, voiceoverUrl, jobSeen, thrown, submitted, via, alerted,
                   conceptSeen, assetsSeen, wavVars, mcVars>>

\* --------------------------------------------- handleGenerateAd: stage 2
\* generateVideoDirectorPrompt resolved; generateVideo reports its start
\* through onProgress (step 6) and submits the job.
scriptReturns ==
    /\ pc = "script"
    /\ veoPrompt' = Some(<<"veo prompt">>)
    /\ pc' = "videoSubmit"
    /\ progress' = Update(6, MsgVeoStart, 0)
    /\ events' = events \o <<Progress(6, MsgVideo, 0), Progress(6, MsgVeoStart, 0),
                             Call("generateVideos", openingFrameData[1].attempt, <<>>)>>
    /\ UNCHANGED <<isLoading, error, result, apiKeySelected, envVars, data,
                   actorImageData, openingFramePrompt, openingFrameData, qcNotes, i,
                   operation, pollCount, voiceoverUrl,
                   verdicts, jobSeen, thrown, submitted, via, alerted,
                   conceptSeen, assetsSeen, wavVars, mcVars>>

\* ----------------------------------------------- geminiService.generateVideo
\* The code after the poll loop, for a done operation op reached with the
\* trace ev: lines 222-236.
AfterLoop(op, ev) ==
    IF VideoOutcome(op) = "ok"
    THEN /\ pc' = "videoFetch"
         /\ progress' = Update(6, MsgVeoDone, 0)
         /\ events' = ev \o <<Progress(6, MsgVeoDone, 0), Call("fetch", 0, <<>>)>>
         /\ UNCHANGED <<isLoading, error, result, apiKeySelected, thrown>>
    ELSE /\ Catch("generateVideo", VideoErrorMessage(VideoOutcome(op), op))
         /\ events' = ev \o CatchEvents

\* Variant: the loop gives up after two status queries.
LoopTest_MaxTries(op, ev, pr) ==
    IF ~op.done /\ pollCount < 3
    THEN /\ pc' = "pollWait"
         /\ events' = Append(ev, Wait)
         /\ progress' = pr
         /\ UNCHANGED <<isLoading, error, result, apiKeySelected, thrown>>
    ELSE AfterLoop(op, ev)

\* while (!operation.done): the loop test on op, entered with trace ev and
\* progress pr.
LoopTest(op, ev, pr) ==
    IF ~op.done
    THEN /\ pc' = "pollWait"
         /\ events' = Append(ev, Wait)
         /\ progress' = pr
         /\ UNCHANGED <<isLoading, error, result, apiKeySelected, thrown>>
    ELSE AfterLoop(op, ev)

\* Responses of the job: it may stay not-done at most MaxPolls times.
JobResponses(seen) == IF seen < MaxPolls THEN DoneOps \cup {NotDone} ELSE DoneOps

\* ai.models.generateVideos resolved with op: lines 213-216.
videoSubmitReturns(op) ==
    /\ pc = "videoSubmit"
    /\ op \in JobResponses(0)
    /\ operation' = op
    /\ jobSeen' = Append(jobSeen, op)
    /\ pollCount' = 1
    /\ LoopTest(op, Append(events, Progress(6, MsgVeoInit, 0)), Update(6, MsgVeoInit, 0))
    /\ UNCHANGED <<envVars, data, actorImageData, openingFramePrompt, openingFrameData,
                   qcNotes, i, veoPrompt, voiceoverUrl,
                   verdicts, submitted, via, alerted,
                   conceptSeen, assetsSeen, wavVars, mcVars>>

\* The POLLING_INTERVAL timer fired: the poll message, then the status query.
pollWaitReturns ==
    /\ pc = "pollWait"
    /\ pollCount' = NextPollCount(pollCount)
    /\ pc' = "pollQuery"
    /\ progress' = Update(6, MsgPoll, pollCount)
    /\ events' = events \o <<Progress(6, MsgPoll, pollCount),
                             Call("getVideosOperation", pollCount, <<>>)>>
    /\ UNCHANGED <<isLoading, error, result, apiKeySelected, envVars, data,
                   actorImageData, openingFramePrompt, openingFrameData, qcNotes, i,
                   veoPrompt, operation, voiceoverUrl,
                   verdicts, jobSeen, thrown, submitted, via, alerted,
                   conceptSeen, assetsSeen, wavVars, mcVars>>

\* ai.operations.getVideosOperation resolved with op.
pollQueryReturns(op) ==
    /\ pc = "pollQuery"
    /\ op \in JobResponses(pollCount - 1)
    /\ operation' = op
    /\ jobSeen' = Append(jobSeen, op)
    /\ LoopTest(op, events, progress)
    /\ UNCHANGED <<envVars, data, actorImageData, openingFramePrompt, openingFrameData,
                   qcNotes, i, veoPrompt, pollCount, voiceoverUrl,
                   verdicts, submitted, via, alerted,
                   conceptSeen, assetsSeen, wavVars, mcVars>>

\* fetch(downloadLink) resolved with videoResponse.ok = ok.
videoFetchReturns(ok) ==
    /\ pc = "videoFetch"
    /\ IF ok
       THEN /\ pc' = "videoBlob"
            /\ events' = Append(events, Call("blob", 0, <<>>))
            /\ UNCHANGED <<appVars, envVars, locals, verdicts, jobSeen, thrown, submitted, via, alerted,
                   conceptSeen, assetsSeen, wavVars, mcVars>>
       ELSE Throws("generateVideo", <<"Failed to download video. Status: ">>)

AssetsStage == <<Progress(8, MsgAssets, 0), Call("generateAdAssets", 0, <<>>)>>

\* videoResponse.blob() resolved: generateVideo returns the video URL and
\* the voiceover stage runs only if it was requested (lines 121-131).
videoBlobReturns ==
    /\ pc = "videoBlob"
    /\ IF data.generateVoiceover
       THEN /\ pc' = "speech"
            /\ progress' = Update(7, MsgVoice, 0)
            /\ events' = events \o <<Progress(7, MsgVoice, 0), Call("generateSpeech", 0, <<>>)>>
       ELSE /\ pc' = "assets"
            /\ progress' = Update(8, MsgAssets, 0)
            /\ events' = events \o AssetsStage
    /\ UNCHANGED <<isLoading, error, result, apiKeySelected, envVars, locals,
                   verdicts, jobSeen, thrown, submitted, via, alerted,
                   conceptSeen, assetsSeen, wavVars, mcVars>>

\* The speech call resolved; without audio data generateSpeech throws.
speechReturns(hasAudio) ==
    /\ pc = "speech"
    /\ IF hasAudio
       THEN /\ voiceoverUrl' = Some("blob:voiceover")
            /\ pc' = "assets"
            /\ progress' = Update(8, MsgAssets, 0)
            /\ events' = events \o AssetsStage
            /\ UNCHANGED <<isLoading, error, result, apiKeySelected, envVars, data,
                           actorImageData, openingFramePrompt, openingFrameData, qcNotes,
                           i, veoPrompt, operation, pollCount,
                           verdicts, jobSeen, thrown, submitted, via, alerted,
                   conceptSeen, assetsSeen, wavVars, mcVars>>
       ELSE Throws("generateSpeech", <<"TTS generation failed.">>)

\* generateAdAssets resolved: the final output is published, then the
\* finally block resets isLoading and progress (lines 134-164).
assetsReturns(r) ==
    /\ pc = "assets"
    /\ assetsSeen' = Some(r)
    /\ result' = Some(FinalOutput(voiceoverUrl, r))
    /\ isLoading' = FALSE
    /\ progress' = Idle
    /\ pc' = "idle"
    /\ events' = events \o <<Outcome("setResult"), Reset>>
    /\ UNCHANGED <<error, apiKeySelected, envVars, locals,
                   verdicts, jobSeen, thrown, submitted, via, alerted,
                   conceptSeen, wavVars, mcVars>>

\* The provider call awaited at each position of the try block.
CallAt(p) ==
    CASE p = "analyzeProduct" -> "analyzeImage"
      [] p = "analyzeActor" -> "analyzeImage"
      [] p = "concept" -> "generateAdConcept"
      [] p = "genFrame" -> (IF actorImageData THEN "generateOpeningFrameWithActor" ELSE "generateImage")
      [] p = "validate" -> "validateImage"
      [] p = "script" -> "generateVideoDirectorPrompt"
      [] p = "videoSubmit" -> "generateVideos"
      [] p = "pollQuery" -> "getVideosOperation"
      [] p = "videoFetch" -> "fetch"
      [] p = "videoBlob" -> "blob"
      [] p = "speech" -> "generateSpeech"
      [] p = "assets" -> "generateAdAssets"

ProviderAwaits == {"analyzeProduct", "analyzeActor", "concept", "genFrame", "validate",
                   "script", "videoSubmit", "pollQuery", "videoFetch", "videoBlob",
                   "speech", "assets"}

\* Variant: a rejected frame generation is retried while attempts remain.
stageRejects_RetriesFrame(e) ==
    /\ pc \in ProviderAwaits
    /\ IF pc = "genFrame" /\ i + 1 <= MAX_ATTEMPTS
       THEN /\ i' = i + 1
            /\ progress' = Update(3, MsgFrame, i + 1)
            /\ events' = events \o AttemptHead(i + 1, openingFramePrompt)
            /\ UNCHANGED <<isLoading, error, result, apiKeySelected, envVars, pc, data,
                           actorImageData, openingFramePrompt, openingFrameData, qcNotes,
                           veoPrompt, operation, pollCount, voiceoverUrl,
                           verdicts, jobSeen, thrown, submitted, via, alerted,
                           conceptSeen, assetsSeen, wavVars, mcVars>>
       ELSE Throws(CallAt(pc), e)

\* The awaited provider call rejects with message e.
stageRejects(e) ==
    /\ pc \in ProviderAwaits
    /\ Throws(CallAt(pc), e)

\* ----------------------------------------------------------- specification
\* Every step of the application but the return of generateAdConcept.
AppStep ==
    \/ checkApiKey
    \/ handleSelectKey
    \/ \E fd \in UserInput : handleSubmit(fd)
    \/ \E d \in UserInput : onSubmitNoImage(d)
    \/ \E hasKey \in BOOLEAN : hasSelectedApiKeyReturns(hasKey)
    \/ openSelectKeyReturns
    \/ keyCheckRejects
    \/ readProductReturns
    \/ readRejects
    \/ analyzeProductReturns
    \/ readActorReturns
    \/ analyzeActorReturns
    \/ \E hasImage \in BOOLEAN : frameReturns(hasImage)
    \/ \E v \in Verdicts : validateReturns(v)
    \/ scriptReturns
    \/ \E op \in DoneOps \cup {NotDone} : videoSubmitReturns(op)
    \/ pollWaitReturns
    \/ \E op \in DoneOps \cup {NotDone} : pollQueryReturns(op)
    \/ \E ok \in BOOLEAN : videoFetchReturns(ok)
    \/ videoBlobReturns
    \/ \E hasAudio \in BOOLEAN : speechReturns(hasAudio)
    \/ \E r \in AssetResponses : assetsReturns(r)
    \/ \E e \in ErrMsgs : stageRejects(e)

\* The provider honours the response schema of the concept stage.
Next ==
    \/ AppStep
    \/ conceptReturns

Spec == Init /\ [][Next]_vars

\* -------------------------------------------------- the video stage alone
\* Runs whose stages before the video stage take their plain course (a
\* product image, no actor, a key already selected, a first frame that
\* passes QC), so that what varies is the video job: its responses, the
\* failures of its calls, and what follows it.
VideoInputs == {d \in UserInput : d.productImage /\ ~d.actorImage /\ d.aspectRatio = "9:16"}

PassVerdict == [isValid |-> TRUE, suggestion |-> ""]

\* generateVideos or getVideosOperation rejects.
videoCallRejects(e) ==
    /\ pc \in {"videoSubmit", "pollQuery"}
    /\ stageRejects(e)

\* The user submits the form.
VideoUserStep == \E fd \in VideoInputs : handleSubmit(fd)

\* What the event loop runs by itself: the mount effect, and the handler's
\* continuation when the call it awaits settles.
VideoSettles ==
    \/ checkApiKey
    \/ hasSelectedApiKeyReturns(TRUE)
    \/ readProductReturns
    \/ analyzeProductReturns
    \/ conceptReturns
    \/ frameReturns(TRUE)
    \/ validateReturns(PassVerdict)
    \/ scriptReturns
    \/ \E op \in DoneOps \cup {NotDone} : videoSubmitReturns(op)
    \/ pollWaitReturns
    \/ \E op \in DoneOps \cup {NotDone} : pollQueryReturns(op)
    \/ \E ok \in BOOLEAN : videoFetchReturns(ok)
    \/ videoBlobReturns
    \/ speechReturns(TRUE)
    \/ assetsReturns(RequestedAssets)
    \/ \E e \in ErrMsgs : videoCallRejects(e)

VideoNext == VideoUserStep \/ VideoSettles

\* Every awaited call settles (the provider answers or the request fails,
\* the timer fires) and the event loop then runs the handler's continuation.
VideoSpec == Init /\ [][VideoNext]_vars /\ WF_vars(VideoSettles)

\* The concept stage may resolve with an object that lacks a field.
AnyConceptNext ==
    \/ AppStep
    \/ \E c \in ConceptResponses : conceptResolves(c)

AnyConceptSpec == Init /\ [][AnyConceptNext]_vars

\* ---------------------------------------------- geminiService.generateSpeech
\* The application is idle; a speech response with some decoded audio.
WavInit ==
    /\ AppInit
    /\ McInit
    /\ audioBytes \in AudioInputs
    /\ wavBytes = <<>>
    /\ dataLength = 0
    /\ header = <<>>

\* generateSpeech builds the WAV bytes of the decoded audio.
generateSpeech ==
    /\ wavBytes = <<>>
    /\ wavBytes' = WavOf(audioBytes)
    /\ UNCHANGED <<appVars, envVars, pc, locals, history, audioBytes, dataLength, header,
                   mcVars>>

\* getWavHeader is applied to a data length n and the TTS format.
getWavHeaderReturns(n) ==
    /\ header = <<>>
    /\ dataLength' = n
    /\ header' = getWavHeader(n, SAMPLE_RATE, NUM_CHANNELS, BITS_PER_SAMPLE)
    /\ UNCHANGED <<appVars, envVars, pc, locals, history, audioBytes, wavBytes,
                   mcVars>>

WavNext ==
    \/ generateSpeech
    \/ \E n \in DataLengths : getWavHeaderReturns(n)

WavSpec == WavInit /\ [][WavNext]_vars

\* ------------------------------------------------------------ ModelCreator
\* String.prototype.trim on a token sequence: blanks at both ends go.
RECURSIVE Trim(_)
Trim(t) ==
    IF t = <<>> THEN <<>>
    ELSE IF t[1] = " " THEN Trim(Tail(t))
    ELSE IF t[Len(t)] = " " THEN Trim(SubSeq(t, 1, Len(t) - 1))
    ELSE t

\* What the user can type in the edit box.
EditTexts == {<<>>, <<" ">>, <<"add sunglasses">>, <<"make the dress blue">>}

\* Messages a rejected Model Creator call can carry.
McErrMsgs == {<<>>, <<"provider error">>}

\* generateModelImage: the prompt it built for generation g, and its result.
GenerationPrompt(g) == <<"Create a new, full-body, photorealistic image ", ToStr(g)>>

GenerationResult(g) ==
    [imageUrl |-> [gen |-> g, edits |-> <<>>], prompt |-> GenerationPrompt(g)]

\* editModelImage(baseImage, prompt): the image the provider returns.
EditedImage(base, text) == [gen |-> base.gen, edits |-> Append(base.edits, text)]

\* setResult(prev => ({...prev!, imageUrl: newImageUrl})): spreading null
\* gives an object without prompt.
ResultAfterEdit(prev, img) ==
    IF prev = NULL
    THEN Some([imageUrl |-> img, prompt |-> Undefined])
    ELSE Some([prev[1] EXCEPT !.imageUrl = img])

\* Variant: the history is replaced by the instruction.
HistoryAfterEdit_Replace(h, text) == <<text>>

\* setPromptHistory(prev => [...prev, editPrompt])
HistoryAfterEdit(h, text) == Append(h, text)

\* The file inputs' onChange.
selectFiles(f, h) ==
    /\ <<f, h>> # <<fashionPhoto, headshot>>
    /\ fashionPhoto' = f
    /\ headshot' = h
    /\ UNCHANGED <<mcIsLoading, isEditing, mcError, mcResult, editPrompt, promptHistory,
                   mcHandlers, mcHistory>>
    /\ UNCHANGED <<appVars, envVars, pc, locals, history, wavVars>>

\* The edit box's onChange: the box is rendered with the result and
\* disabled while isEditing.
setEditPrompt(v) ==
    /\ mcResult # NULL
    /\ ~isEditing
    /\ v # editPrompt
    /\ editPrompt' = v
    /\ UNCHANGED <<fashionPhoto, headshot, mcIsLoading, isEditing, mcError, mcResult,
                   promptHistory, mcHandlers, mcHistory>>
    /\ UNCHANGED <<appVars, envVars, pc, locals, history, wavVars>>

\* ModelCreator.handleSubmit up to its first await (lines 88-99). The
\* generate button is disabled while isLoading.
mcHandleSubmit ==
    /\ ~mcIsLoading
    /\ genPc = "idle"
    /\ IF ~fashionPhoto \/ ~headshot
       THEN /\ ~mcAlerted
            /\ mcAlerted' = TRUE
            /\ UNCHANGED <<mcState, mcHandlers, genCount, editCount, lastEdit, editSnap,
                           genTouched>>
       ELSE /\ genCount < MaxGens
            /\ genCount' = genCount + 1
            /\ mcIsLoading' = TRUE
            /\ mcError' = NULL
            /\ mcResult' = NULL
            /\ promptHistory' = <<>>
            /\ genPc' = "readFashion"
            /\ genTouched' = TRUE
            /\ mcAlerted' = FALSE
            /\ UNCHANGED <<fashionPhoto, headshot, isEditing, editPrompt, editPc, editBase,
                           editText, editCount, lastEdit, editSnap>>
    /\ UNCHANGED <<appVars, envVars, pc, locals, history, wavVars>>

\* fileToBase64(fashionPhoto) resolved.
readFashionReturns ==
    /\ genPc = "readFashion"
    /\ genPc' = "readHeadshot"
    /\ UNCHANGED <<mcState, editPc, editBase, editText, mcHistory>>
    /\ UNCHANGED <<appVars, envVars, pc, locals, history, wavVars>>

\* fileToBase64(headshot) resolved.
readHeadshotReturns ==
    /\ genPc = "readHeadshot"
    /\ genPc' = "generateModelImage"
    /\ UNCHANGED <<mcState, editPc, editBase, editText, mcHistory>>
    /\ UNCHANGED <<appVars, envVars, pc, locals, history, wavVars>>

\* generateModelImage resolved: lines 102-103 and the finally block.
generateModelImageReturns ==
    /\ genPc = "generateModelImage"
    /\ mcResult' = Some(GenerationResult(genCount))
    /\ promptHistory' = <<GenerationResult(genCount).prompt>>
    /\ mcIsLoading' = FALSE
    /\ genPc' = "idle"
    /\ genTouched' = TRUE
    /\ UNCHANGED <<fashionPhoto, headshot, isEditing, mcError, editPrompt, editPc,
                   editBase, editText, genCount, editCount, mcAlerted, lastEdit, editSnap>>
    /\ UNCHANGED <<appVars, envVars, pc, locals, history, wavVars>>

\* A call awaited by handleSubmit rejected with message e: the catch and
\* finally blocks (lines 104-108).
generationRejects(e) ==
    /\ genPc \in {"readFashion", "readHeadshot", "generateModelImage"}
    /\ mcError' = Some(IF e = <<>> THEN <<"Failed to generate model image.">> ELSE e)
    /\ mcIsLoading' = FALSE
    /\ genPc' = "idle"
    /\ UNCHANGED <<fashionPhoto, headshot, isEditing, mcResult, editPrompt, promptHistory,
                   editPc, editBase, editText, mcHistory>>
    /\ UNCHANGED <<appVars, envVars, pc, locals, history, wavVars>>

\* Variant: the instruction is tested without trimming.
EditIgnored_NoTrim(prompt, res) == prompt = <<>> \/ res = NULL

\* if (!editPrompt.trim() || !result) return;
EditIgnored(prompt, res) == Trim(prompt) = <<>> \/ res = NULL

\* handleEditSubmit up to its await (lines 111-119): the early return of
\* line 113, else the edit call. No submission arrives while isEditing (the
\* input and the button are disabled).
handleEditSubmit ==
    /\ ~isEditing
    /\ editPc = "idle"
    /\ IF EditIgnored(editPrompt, mcResult)
       THEN /\ lastEdit # "ignored"
            /\ lastEdit' = "ignored"
            /\ UNCHANGED <<mcState, mcHandlers, genCount, editCount, mcAlerted, editSnap,
                           genTouched>>
       ELSE /\ editCount < MaxEdits
            /\ editCount' = editCount + 1
            /\ isEditing' = TRUE
            /\ mcError' = NULL
            /\ editBase' = mcResult[1].imageUrl
            /\ editText' = editPrompt
            /\ editPc' = "editModelImage"
            /\ lastEdit' = "none"
            /\ editSnap' = [result |-> mcResult, history |-> promptHistory]
            /\ genTouched' = FALSE
            /\ UNCHANGED <<fashionPhoto, headshot, mcIsLoading, mcResult, editPrompt,
                           promptHistory, genPc, genCount, mcAlerted>>
    /\ UNCHANGED <<appVars, envVars, pc, locals, history, wavVars>>

\* editModelImage resolved: lines 120-122 and the finally block.
editModelImageReturns ==
    /\ editPc = "editModelImage"
    /\ mcResult' = ResultAfterEdit(mcResult, EditedImage(editBase, editText))
    /\ promptHistory' = HistoryAfterEdit(promptHistory, editText)
    /\ editPrompt' = <<>>
    /\ isEditing' = FALSE
    /\ editPc' = "idle"
    /\ lastEdit' = "ok"
    /\ UNCHANGED <<fashionPhoto, headshot, mcIsLoading, mcError, genPc, editBase, editText,
                   genCount, editCount, mcAlerted, editSnap, genTouched>>
    /\ UNCHANGED <<appVars, envVars, pc, locals, history, wavVars>>

\* Variant: the catch block also discards the result.
EditFailure_DropsResult(e) ==
    /\ mcError' = Some(IF e = <<>> THEN <<"Failed to edit model image.">> ELSE e)
    /\ mcResult' = NULL
    /\ isEditing' = FALSE
    /\ UNCHANGED <<editPrompt, promptHistory>>

\* The catch and finally blocks of handleEditSubmit (lines 123-127).
EditFailure(e) ==
    /\ mcError' = Some(IF e = <<>> THEN <<"Failed to edit model image.">> ELSE e)
    /\ isEditing' = FALSE
    /\ UNCHANGED <<mcResult, editPrompt, promptHistory>>

\* Variant: the failure is also published as the application's error.
editRejects_AppError(e) ==
    /\ editPc = "editModelImage"
    /\ EditFailure(e)
    /\ error' = mcError'
    /\ editPc' = "idle"
    /\ lastEdit' = "failed"
    /\ UNCHANGED <<fashionPhoto, headshot, mcIsLoading, genPc, editBase, editText,
                   genCount, editCount, mcAlerted, editSnap, genTouched>>
    /\ UNCHANGED <<isLoading, progress, result, apiKeySelected, envVars, pc, locals,
                   history, wavVars>>

\* editModelImage rejected with message e.
editRejects(e) ==
    /\ editPc = "editModelImage"
    /\ EditFailure(e)
    /\ editPc' = "idle"
    /\ lastEdit' = "failed"
    /\ UNCHANGED <<fashionPhoto, headshot, mcIsLoading, genPc, editBase, editText,
                   genCount, editCount, mcAlerted, editSnap, genTouched>>
    /\ UNCHANGED <<appVars, envVars, pc, locals, history, wavVars>>

McNext ==
    \/ \E f, h \in BOOLEAN : selectFiles(f, h)
    \/ \E v \in EditTexts : setEditPrompt(v)
    \/ mcHandleSubmit
    \/ readFashionReturns
    \/ readHeadshotReturns
    \/ generateModelImageReturns
    \/ \E e \in McErrMsgs : generationRejects(e)
    \/ handleEditSubmit
    \/ editModelImageReturns
    \/ \E e \in McErrMsgs : editRejects(e)

McSpec == Init /\ [][McNext]_vars

\* ------------------------------------------- App with ModelCreator mounted
\* App renders InputForm and ModelCreator side by side (lines 199-202): a
\* plain pipeline run whose calls succeed or fail with a credential error,
\* while the Model Creator generates and edits.
PipelineStep ==
    \/ checkApiKey
    \/ \E fd \in VideoInputs : handleSubmit(fd)
    \/ hasSelectedApiKeyReturns(TRUE)
    \/ readProductReturns
    \/ analyzeProductReturns
    \/ conceptReturns
    \/ frameReturns(TRUE)
    \/ validateReturns(PassVerdict)
    \/ scriptReturns
    \/ \E op \in DoneOps : videoSubmitReturns(op)
    \/ videoFetchReturns(TRUE)
    \/ videoBlobReturns
    \/ speechReturns(TRUE)
    \/ assetsReturns(RequestedAssets)
    \/ stageRejects(<<NotFound>>)

ModelCreatorStep ==
    \/ selectFiles(TRUE, TRUE)
    \/ setEditPrompt(<<"add sunglasses">>)
    \/ mcHandleSubmit
    \/ readFashionReturns
    \/ readHeadshotReturns
    \/ generateModelImageReturns
    \/ generationRejects(<<>>)
    \/ handleEditSubmit
    \/ editModelImageReturns
    \/ editRejects(<<>>)

MountedNext == PipelineStep \/ ModelCreatorStep

MountedSpec == Init /\ [][MountedNext]_vars

TypeOK ==
    /\ isLoading \in BOOLEAN
    /\ progress.step \in 0..TOTAL_STEPS
    /\ apiKeySelected \in {"null", "true", "false"}
    /\ i \in 0..MAX_ATTEMPTS
    /\ pollCount \in 0..(MaxPolls + 1)
    /\ Len(verdicts) <= MAX_ATTEMPTS

\* ------------------------------------------------------ reading the trace
FrameOps == {"generateImage", "generateOpeningFrameWithActor"}

IsCall(e, ops) == e.t = "call" /\ e.op \in ops

CallCount(ev, ops) == Cardinality({k \in 1..Len(ev) : IsCall(ev[k], ops)})

IsProgress(e) == e.t = "progress"

ProgressUpdates == SelectSeq(events, IsProgress)

\* The progress state is the last update of the trace while a run is in
\* the try block.
ProgressMatchesTrace ==
    pc \in ProviderAwaits \cup {"readProduct", "readActor", "pollWait"} =>
        LET u == ProgressUpdates[Len(ProgressUpdates)]
        IN progress = Update(u.step, u.op, u.n)

AllInvalid == Len(verdicts) = MAX_ATTEMPTS /\ \A k \in 1..Len(verdicts) : ~verdicts[k].isValid

\* ------------------------------------------------------------------ claims
\* C1: validateImage is invoked at most 3 times per run, and once attempt N
\* returned isValid = true neither frame generation nor validation is
\* invoked for an attempt after N.
C1_QcLoopStopsOnValid ==
    /\ CallCount(events, {"validateImage"}) <= 3
    /\ \A N \in 1..Len(verdicts) :
          verdicts[N].isValid =>
              /\ Len(verdicts) = N
              /\ \A k \in 1..Len(events) :
                    IsCall(events[k], FrameOps \cup {"validateImage"}) => events[k].n <= N

C1_Witness ==
    /\ Len(verdicts) = 2
    /\ verdicts[2].isValid
    /\ result # NULL

\* C2: after three invalid verdicts the run does not fail at the loop: it
\* goes on to the script, video and asset stages, and the FinalOutput it
\* produces (error null) has the "failed after 3 attempts" note carrying
\* the suggestion of the third validation.
C2_ThreeInvalidStillDelivers ==
    AllInvalid =>
        /\ pc \in {"script", "videoSubmit", "pollWait", "pollQuery", "videoFetch",
                   "videoBlob", "speech", "assets", "idle"}
        /\ thrown # NULL => thrown[1].stage \notin FrameOps \cup {"validateImage", "handleGenerateAd"}
        /\ (pc = "idle" /\ thrown = NULL) =>
              /\ result # NULL
              /\ error = NULL
              /\ result[1].qc_notes =
                    <<"QC failed after 3 attempts. Using best available image. Final issue: ",
                      verdicts[3].suggestion>>
              /\ CallCount(events, {"generateVideoDirectorPrompt"}) = 1
              /\ CallCount(events, {"generateVideos"}) = 1
              /\ CallCount(events, {"generateAdAssets"}) = 1

C2_Witness ==
    /\ AllInvalid
    /\ result # NULL
    /\ verdicts[3].suggestion # verdicts[2].suggestion

\* C3 as stated: over the progress updates of a run, each update has a step
\* at least as large as the one before it.
C3_StepsNeverDecrease ==
    \A k \in 1..(Len(ProgressUpdates) - 1) :
        ProgressUpdates[k + 1].step >= ProgressUpdates[k].step

\* C3 amended: the step never decreases except at a QC retry, where the
\* update "validating attempt N" (step 4) is followed by "generating
\* attempt N+1" (step 3).
C3_StepsDecreaseOnlyAtRetry ==
    \A k \in 1..(Len(ProgressUpdates) - 1) :
        LET a == ProgressUpdates[k]
            b == ProgressUpdates[k + 1]
        IN \/ b.step >= a.step
           \/ /\ a.step = 4 /\ a.op = MsgValidate
              /\ b.step = 3 /\ b.op = MsgFrame
              /\ b.n = a.n + 1

C3_Witness ==
    /\ result # NULL
    /\ \E k \in 1..(Len(ProgressUpdates) - 1) :
          ProgressUpdates[k].step = 4 /\ ProgressUpdates[k + 1].step = 3

\* C4: the prompt handed to the script stage and stored in
\* FinalOutput.opening_frame_prompt is the prompt the delivered opening
\* frame was generated from.
C4_PromptIsTheFramesPrompt ==
    /\ \A k \in 1..Len(events) :
          IsCall(events[k], {"generateVideoDirectorPrompt"}) =>
              events[k].arg = openingFrameData[1].prompt
    /\ result # NULL =>
          result[1].opening_frame_prompt = result[1].opening_frame_image_url.prompt

\* C5: during a run the opening-frame prompt only grows: each step leaves
\* the previous prompt as a prefix, and an invalid verdict appends exactly
\* the fix text with its suggestion.
C5_PromptOnlyGrows ==
    [][(pc \in {"genFrame", "validate"} /\ pc' # "idle") =>
          /\ IsPrefix(openingFramePrompt, openingFramePrompt')
          /\ (Len(verdicts') = Len(verdicts) + 1 /\ ~verdicts'[Len(verdicts')].isValid) =>
                openingFramePrompt' = openingFramePrompt \o
                    <<". IMPORTANT FIX: ", verdicts'[Len(verdicts')].suggestion>>]_vars

C5_Witness ==
    /\ pc = "genFrame"
    /\ Len(verdicts) = 2
    /\ Len(openingFramePrompt) = 5

\* Every call the try block can await, and those that go to the provider.
AllOps == FrameOps \cup {"fileToBase64", "analyzeImage", "generateAdConcept", "validateImage",
                         "generateVideoDirectorPrompt", "generateVideos",
                         "getVideosOperation", "fetch", "blob", "generateSpeech",
                         "generateAdAssets"}

ProviderOps == AllOps \ {"fileToBase64"}

\* C6: when a stage call throws, the run ends in that very step: no call
\* is made after it (no later stage, no retry), result stays null, error is
\* set and isLoading is false.
C6_FailureAborts ==
    [][thrown' # NULL =>
          /\ pc' = "idle"
          /\ ~isLoading'
          /\ result' = NULL
          /\ error' # NULL
          /\ CallCount(events', AllOps) = CallCount(events, AllOps)]_vars

C6_Witness ==
    /\ thrown # NULL
    /\ thrown[1].stage = "generateVideoDirectorPrompt"
    /\ Len(verdicts) = 2
    /\ error # NULL

\* C7 as stated: on every path the reset of the progress precedes the
\* publication of the outcome (setResult or setError).
C7_ResetPrecedesOutcome ==
    \A k \in 1..Len(events) :
        events[k].t = "outcome" => \E j \in 1..(k - 1) : events[j] = Reset

\* C7 amended: the reset follows the publication within the same segment:
\* in every state in which result or error is non-null the progress is the
\* idle reset and isLoading is false, and in the run's trace the outcome is
\* the entry right before the reset, which is the last one.
C7_OutcomeComesWithIdleProgress ==
    (result # NULL \/ error # NULL) =>
        /\ progress = Idle
        /\ ~isLoading
        /\ events[Len(events)] = Reset
        /\ \A k \in 1..Len(events) : events[k].t = "outcome" => k = Len(events) - 1

C7_Witness ==
    /\ result # NULL
    /\ progress = Idle
    /\ \E k \in 1..Len(events) : events[k].t = "progress" /\ events[k].step = 8

IsPollMsg(e) == e.t = "progress" /\ e.op = MsgPoll

PollMsgs == SelectSeq(events, IsPollMsg)

SuccessAt == {k \in 1..Len(events) : events[k].t = "progress" /\ events[k].op = MsgVeoDone}

\* C9: when the job was seen not-done k times and then done with a URI,
\* exactly k poll messages numbered 1..k were emitted in order, each right
\* after one POLLING_INTERVAL wait and right before one status query, all
\* of them before the single success message.
C9_PollMessages ==
    SuccessAt # {} =>
        LET k == Len(jobSeen) - 1
        IN /\ \A j \in 1..k : ~jobSeen[j].done
           /\ jobSeen[k + 1].done /\ jobSeen[k + 1].uri
           /\ Len(PollMsgs) = k
           /\ \A j \in 1..k : PollMsgs[j].n = j /\ PollMsgs[j].step = 6
           /\ Cardinality({x \in 1..Len(events) : events[x] = Wait}) = k
           /\ CallCount(events, {"getVideosOperation"}) = k
           /\ \A x \in 1..Len(events) :
                 IsPollMsg(events[x]) =>
                     /\ events[x - 1] = Wait
                     /\ events[x - 1].n = 10000
                     /\ IsCall(events[x + 1], {"getVideosOperation"})
                     /\ \A y \in SuccessAt : x < y
           /\ Cardinality(SuccessAt) = 1

C9_Witness ==
    /\ SuccessAt # {}
    /\ Len(jobSeen) = 3
    /\ Len(PollMsgs) = 2

\* C10: a done job with an error fails the stage with the job's error
\* message, also when a URI is present; a done job without error and
\* without URI fails it with the "no video URI" message; only otherwise
\* the success message is emitted and the media fetched. Both failures end
\* the run without a result.
C10_DoneJobOutcome ==
    (jobSeen # <<>> /\ jobSeen[Len(jobSeen)].done) =>
        LET op == jobSeen[Len(jobSeen)]
            failed(msg) ==
                /\ thrown = Some([stage |-> "generateVideo", message |-> msg])
                /\ pc = "idle"
                /\ result = NULL
                /\ error # NULL
                /\ SuccessAt = {}
                /\ CallCount(events, {"fetch"}) = 0
        IN IF op.error # NULL
           THEN failed(<<"Video generation failed: ">> \o
                       (IF op.error[1] = <<>> THEN <<"Unknown error">> ELSE op.error[1]))
           ELSE IF ~op.uri
           THEN failed(<<"Video generation completed, but no video URI was found.">>)
           ELSE /\ Cardinality(SuccessAt) = 1
                /\ CallCount(events, {"fetch"}) = 1
                /\ \A y \in SuccessAt : IsCall(events[y + 1], {"fetch"})

C10_Witness ==
    /\ jobSeen # <<>>
    /\ jobSeen[Len(jobSeen)].done
    /\ jobSeen[Len(jobSeen)].error = Some(<<"provider error">>)
    /\ jobSeen[Len(jobSeen)].uri
    /\ error = Some(<<"Video generation failed: ", "provider error">>)


\* The fixes the invalid verdicts vs append to the prompt, in order.
RECURSIVE FixesOf(_)
FixesOf(vs) ==
    IF vs = <<>> THEN <<>>
    ELSE FixesOf(SubSeq(vs, 1, Len(vs) - 1)) \o <<". IMPORTANT FIX: ", vs[Len(vs)].suggestion>>

\* The run's verdicts are invalid on attempts 1..N-1 and valid on attempt N.
FirstValidAt(N) ==
    /\ Len(verdicts) = N
    /\ verdicts[N].isValid
    /\ \A k \in 1..(N - 1) : ~verdicts[k].isValid

\* C12: when validation is invalid on attempts 1..N-1 and valid on attempt
\* N (N = 2 or 3), the note is "QC passed on attempt N.", also in the
\* FinalOutput, and the prompt is the concept's prompt followed by exactly
\* the N-1 suggestions in order; the frame of attempt N was generated from
\* that prompt.
C12_PassOnLaterAttempt ==
    \A N \in 2..MAX_ATTEMPTS :
        FirstValidAt(N) =>
            LET p == ConceptPrompt \o FixesOf(SubSeq(verdicts, 1, N - 1))
            IN /\ qcNotes = <<"QC passed on attempt ", ToStr(N), ".">>
               /\ openingFramePrompt = p
               /\ openingFrameData[1].attempt = N
               /\ openingFrameData[1].prompt = p
               /\ \A k \in 1..Len(events) :
                     (IsCall(events[k], FrameOps) /\ events[k].n = N) => events[k].arg = p
               /\ result # NULL =>
                     /\ result[1].qc_notes = <<"QC passed on attempt ", ToStr(N), ".">>
                     /\ result[1].opening_frame_prompt = p

C12_Witness ==
    /\ FirstValidAt(3)
    /\ verdicts[1].suggestion # verdicts[2].suggestion
    /\ result # NULL

\* C13: when validation is valid on attempt 1, the note is the literal
\* "QC passed on first attempt.", exactly one frame generation and one
\* validation were invoked, and the prompt is the one the concept returned.
C13_PassOnFirstAttempt ==
    FirstValidAt(1) =>
        /\ qcNotes = <<"QC passed on first attempt.">>
        /\ CallCount(events, FrameOps) = 1
        /\ CallCount(events, {"validateImage"}) = 1
        /\ openingFramePrompt = conceptSeen[1].openingFramePrompt
        /\ result # NULL =>
              /\ result[1].qc_notes = <<"QC passed on first attempt.">>
              /\ result[1].opening_frame_prompt = conceptSeen[1].openingFramePrompt

C13_Witness ==
    /\ FirstValidAt(1)
    /\ result # NULL
    /\ result[1].qc_notes = <<"QC passed on first attempt.">>

\* Positions of the calls of an operation in the trace.
CallsOf(op) == {k \in 1..Len(events) : IsCall(events[k], {op})}

\* C14: speech synthesis is invoked, and step 7 reported, if and only if
\* generateVoiceover is set; the call comes right after the step-7 update,
\* after the video stage's last call and before the ad-asset call; the
\* FinalOutput has a voiceover URL exactly in that case.
C14_VoiceoverIffRequested ==
    /\ \A k \in CallsOf("generateSpeech") :
          /\ data.generateVoiceover
          /\ k > 1 /\ events[k - 1] = Progress(7, MsgVoice, 0)
          /\ \E j \in CallsOf("blob") : j < k
          /\ \A j \in CallsOf("generateAdAssets") : j > k
    /\ \A j \in CallsOf("generateAdAssets") :
          data.generateVoiceover <=> (\E k \in CallsOf("generateSpeech") : k < j)
    /\ (\E k \in 1..Len(events) : IsProgress(events[k]) /\ events[k].step = 7)
          <=> CallsOf("generateSpeech") # {}
    /\ Cardinality(CallsOf("generateSpeech")) <= 1
    /\ result # NULL => ((result[1].voiceover_audio_url # NULL) <=> data.generateVoiceover)

C14_Witness ==
    /\ result # NULL
    /\ data.generateVoiceover
    /\ result[1].voiceover_audio_url # NULL
    /\ CallsOf("generateSpeech") # {}

\* s repeated n times.
RECURSIVE Repeat(_, _)
Repeat(s, n) == IF n = 0 THEN <<>> ELSE s \o Repeat(s, n - 1)

IsProviderCall(e) == IsCall(e, ProviderOps)

\* The operations of the provider calls of the trace, in order.
ProviderCalls == [k \in 1..Len(SelectSeq(events, IsProviderCall)) |->
                     SelectSeq(events, IsProviderCall)[k].op]

\* C15: a successful run without actor image and without voiceover invokes
\* exactly: product analysis, concept, one to three rounds of (generateImage,
\* validateImage), script, the video submission with its status queries and
\* the download, ad assets; never actor analysis, the actor composite or
\* speech; and the steps it reports are among 1, 2, 3, 4, 5, 6, 8.
C15_ScenarioA ==
    (result # NULL /\ ~data.actorImage /\ ~data.generateVoiceover) =>
        /\ Len(verdicts) \in 1..MAX_ATTEMPTS
        /\ ProviderCalls =
              <<"analyzeImage", "generateAdConcept">>
              \o Repeat(<<"generateImage", "validateImage">>, Len(verdicts))
              \o <<"generateVideoDirectorPrompt", "generateVideos">>
              \o Repeat(<<"getVideosOperation">>, Len(jobSeen) - 1)
              \o <<"fetch", "blob", "generateAdAssets">>
        /\ \A k \in 1..Len(events) :
              /\ IsCall(events[k], {"analyzeImage", "fileToBase64"}) => events[k].arg = <<"product">>
              /\ ~IsCall(events[k], {"generateOpeningFrameWithActor", "generateSpeech"})
              /\ IsProgress(events[k]) => events[k].step \in {1, 2, 3, 4, 5, 6, 8}

C15_Witness ==
    /\ result # NULL
    /\ ~data.actorImage
    /\ ~data.generateVoiceover
    /\ Len(verdicts) = 2
    /\ Len(jobSeen) = 3

\* A call or a timer wait: something the handler awaits.
IsAwaited(e) == e.t \in {"call", "wait"}

\* The events a step appended to the trace (a new run starts a new trace).
Appended(old, new) ==
    IF IsPrefix(old, new) THEN SubSeq(new, Len(old) + 1, Len(new)) ELSE new

\* C16: at most one call or poll delay is outstanding: a step starts at
\* most one, as the last thing it does, so that the next one starts only in
\* the step that runs when it has settled; while the handler waits, the one
\* it waits for is the last one started; and the actor analysis starts
\* after the product analysis, in a later step.
C16_OneCallAtATime ==
    [][LET new == Appended(events, events')
       IN /\ Len(SelectSeq(new, IsAwaited)) <= 1
          /\ \A k \in 1..Len(new) : IsAwaited(new[k]) => k = Len(new)
          /\ pc' \in ProviderAwaits =>
                IsCall(events'[Len(events')], {CallAt(pc')})
          /\ pc' = "pollWait" => events'[Len(events')] = Wait
          /\ \A k \in 1..Len(new) :
                new[k] = Call("analyzeImage", 0, <<"actor">>) =>
                    \E j \in 1..Len(events) : events[j] = Call("analyzeImage", 0, <<"product">>)]_vars

C16_Witness ==
    /\ pc = "analyzeActor"
    /\ CallCount(events, {"analyzeImage"}) = 2

\* C17: an error whose message contains "Requested entity was not found"
\* is surfaced as the credential message and sets apiKeySelected to false;
\* any other error is surfaced as its message, or as "An unknown error
\* occurred." when it has none, and leaves apiKeySelected as it was.
C17_CredentialRemap ==
    [][(thrown' # NULL /\ thrown = NULL) =>
          LET m == thrown'[1].message
          IN IF Includes(m, NotFound)
             THEN /\ error' = Some(<<"API Key not found or invalid. Please select a valid API key and try again.">>)
                  /\ apiKeySelected' = "false"
             ELSE /\ error' = Some(IF m = <<>> THEN <<"An unknown error occurred.">> ELSE m)
                  /\ apiKeySelected' = apiKeySelected]_vars

C17_Witness ==
    /\ thrown # NULL
    /\ thrown[1].message = <<"Video generation failed: ", NotFound>>
    /\ error = Some(CredentialMessage)
    /\ apiKeySelected = "false"

InPollLoop == pc \in {"pollWait", "pollQuery"}

\* The last response of the video job in jobs.
LastJob(jobs) == jobs[Len(jobs)]

\* C11: the poll loop has no maximum number of iterations. It is left only
\* in the step in which a status query resolved done or threw, and a
\* not-done response always leads to another wait; so as long as every
\* response of the job is not-done (and no query threw) the run is still
\* loading inside the loop, whatever the number of polls; and, every
\* awaited call settling, a run in the loop whose job reports done (or whose
\* query throws) reaches a terminal outcome with isLoading = false.
C11_PollLoopUnbounded ==
    /\ []((jobSeen # <<>> /\ thrown = NULL /\ \A k \in 1..Len(jobSeen) : ~jobSeen[k].done) =>
             (isLoading /\ InPollLoop /\ result = NULL /\ error = NULL))
    /\ [][/\ (InPollLoop /\ ~InPollLoop') =>
                /\ pc = "pollQuery"
                /\ \/ thrown' # NULL
                   \/ Len(jobSeen') = Len(jobSeen) + 1 /\ LastJob(jobSeen').done
          /\ (Len(jobSeen') = Len(jobSeen) + 1 /\ ~LastJob(jobSeen').done) =>
                pc' = "pollWait"]_vars
    /\ InPollLoop ~> (pc = "idle" /\ ~isLoading /\ (result # NULL \/ error # NULL))

C11_Witness ==
    /\ pc = "pollWait"
    /\ Len(jobSeen) = 3
    /\ \A k \in 1..Len(jobSeen) : ~jobSeen[k].done
    /\ isLoading
    /\ data.generateVoiceover

\* C18: when the object generateAdConcept resolves with lacks one of the
\* four concept fields, the concept stage fails and the run makes no frame
\* generation call.
C18_IncompleteConceptFails ==
    (conceptSeen # NULL /\ MissingFields(conceptSeen[1]) # {}) =>
        /\ thrown # NULL
        /\ thrown[1].stage = "generateAdConcept"
        /\ CallCount(events, FrameOps) = 0

\* The response is what the ad-asset request asks for: three ad copies and
\* five hashtags written without the marker.
AsRequested(r) ==
    /\ Len(r.adCopyVariations) = 3
    /\ Len(r.hashtags) = 5
    /\ \A k \in 1..Len(r.hashtags) : r.hashtags[k][1] # "#"

\* C19: when the provider's ad-asset response is well-formed (three copies,
\* five hashtags without marker), the FinalOutput has exactly 3
\* ad_copy_variations and exactly 5 hashtags, none beginning with "#", and
\* they are the provider's.
C19_AssetsAsRequested ==
    (result # NULL /\ AsRequested(assetsSeen[1])) =>
        /\ Len(result[1].ad_copy_variations) = 3
        /\ Len(result[1].hashtags) = 5
        /\ \A k \in 1..Len(result[1].hashtags) : result[1].hashtags[k][1] # "#"
        /\ result[1].ad_copy_variations = assetsSeen[1].adCopyVariations
        /\ result[1].hashtags = assetsSeen[1].hashtags

C19_Witness ==
    /\ result # NULL
    /\ AsRequested(assetsSeen[1])
    /\ Len(result[1].hashtags) = 5

\* Reading a RIFF file: the little-endian unsigned integers at byte offset
\* off of the bytes b.
ReadU16(b, off) == b[off + 1] + 256 * b[off + 2]

ReadU32(b, off) == b[off + 1] + 256 * b[off + 2] + 65536 * b[off + 3] + 16777216 * b[off + 4]

\* C20: for N bytes of decoded audio the WAV bytes are 44 + N long, the
\* little-endian 32-bit values at offsets 4 and 40 are 36 + N and N, the
\* 16-bit format tag at offset 20 is 1 (PCM), and the audio follows the
\* header unchanged from offset 44; the header alone has these fields for
\* every data length.
C20_WavContainer ==
    /\ wavBytes # <<>> =>
          LET N == Len(audioBytes)
          IN /\ Len(wavBytes) = 44 + N
             /\ ReadU32(wavBytes, 4) = 36 + N
             /\ ReadU32(wavBytes, 40) = N
             /\ ReadU16(wavBytes, 20) = 1
             /\ SubSeq(wavBytes, 45, 44 + N) = audioBytes
    /\ header # <<>> =>
          /\ Len(header) = 44
          /\ ReadU32(header, 4) = 36 + dataLength
          /\ ReadU32(header, 40) = dataLength
          /\ ReadU16(header, 20) = 1

C20_Witness ==
    /\ wavBytes # <<>>
    /\ Len(audioBytes) = 3
    /\ audioBytes[1] # audioBytes[2]
    /\ header # <<>>
    /\ dataLength = 65536

\* ------------------------------------------------- Model Creator: readers
\* The step ends an edit: editModelImage has settled.
EditEnds == editPc = "editModelImage" /\ editPc' = "idle"

\* The step is handleSubmit's start, and the step in which its generation
\* call has settled.
GenerationStarts == genPc = "idle" /\ genPc' = "readFashion"

GenerationEnds == genPc = "generateModelImage" /\ genPc' = "idle"

\* C21 as stated: the prompt history is never truncated: every operation
\* leaves the history it found as a prefix of the history it leaves.
C21_NeverTruncated == [][IsPrefix(promptHistory, promptHistory')]_vars

\* C21: the prompt history is truncated by a generation and by nothing
\* else: submitting a generation empties it and a generation that succeeds
\* sets it to that generation's prompt alone; every other operation leaves
\* the history it found as a prefix, a successful edit appending exactly its
\* instruction and a failed one nothing.
C21_TruncatedOnlyByGeneration ==
    [][/\ GenerationStarts => promptHistory' = <<>>
       /\ GenerationEnds =>
              \/ promptHistory' = <<GenerationPrompt(genCount)>>
              \/ promptHistory' = promptHistory /\ mcError' # NULL
       /\ ~(GenerationStarts \/ GenerationEnds) =>
              /\ IsPrefix(promptHistory, promptHistory')
              /\ (EditEnds /\ lastEdit' = "ok") =>
                     promptHistory' = Append(promptHistory, editText)
              /\ ~(EditEnds /\ lastEdit' = "ok") => promptHistory' = promptHistory
      ]_vars

\* A second generation has replaced a history that held an edit.
C21_Witness ==
    /\ genCount = 2
    /\ lastEdit = "ok"
    /\ editPc = "idle"
    /\ promptHistory = <<GenerationPrompt(2)>>

\* C22: an edit that fails changes neither the result nor the history nor
\* the instruction in the box: they are as they were when the edit was
\* submitted unless a generation acted meanwhile; only error and isEditing
\* change, and the form accepts the next edit. An edit that succeeds
\* replaces the image by the provider's edit of the image that was submitted
\* and appends exactly the submitted instruction.
C22_EditFrame ==
    [][EditEnds =>
         IF lastEdit' = "failed"
         THEN /\ mcResult' = mcResult
              /\ promptHistory' = promptHistory
              /\ editPrompt' = editPrompt
              /\ ~genTouched =>
                    /\ mcResult' = editSnap.result
                    /\ promptHistory' = editSnap.history
                    /\ mcResult' # NULL
              /\ mcError' # NULL
              /\ ~isEditing'
              /\ Trim(editPrompt') # <<>>
              /\ <<fashionPhoto', headshot', mcIsLoading'>> = <<fashionPhoto, headshot, mcIsLoading>>
         ELSE /\ mcResult' # NULL
              /\ mcResult'[1].imageUrl = EditedImage(editBase, editText)
              /\ editBase = editSnap.result[1].imageUrl
              /\ promptHistory' = Append(promptHistory, editText)
              /\ ~isEditing'
      ]_vars

\* A second edit has failed after a first one succeeded, and nothing of the
\* first is lost.
C22_Witness ==
    /\ lastEdit = "failed"
    /\ ~genTouched
    /\ editCount = 2
    /\ mcResult # NULL
    /\ Len(mcResult[1].imageUrl.edits) = 1
    /\ Len(promptHistory) = 2

\* C23: whenever a result is displayed its prompt is defined, the first
\* history entry is the generation prompt of the generation the image derives
\* from, and the later entries are the edits applied to that image, in order.
C23_ResultConsistent ==
    mcResult # NULL =>
        /\ mcResult[1].prompt # Undefined
        /\ promptHistory # <<>>
        /\ promptHistory[1] = GenerationPrompt(mcResult[1].imageUrl.gen)
        /\ Tail(promptHistory) = mcResult[1].imageUrl.edits

\* C24: an invocation of handleGenerateAd that has ended, whether its
\* awaited calls returned or rejected, has set isLoading back to false and
\* progress back to idle.
C24_LoadingResetOnEveryExit ==
    pc \in {"idle", "abandoned"} => (~isLoading /\ progress = Idle)

\* The calls of the trace ev, in order.
IsCallEvent(e) == e.t = "call"

CallsIn(ev) == SelectSeq(ev, IsCallEvent)

\* C25: the QC loop starts attempt n > 1 only after validation n - 1
\* returned isValid = false; and after a throw from frame generation or from
\* validation the run has ended, the throwing call is the last call of the
\* run, and no attempt was started beyond the one that threw.
C25_ThrowAbortsLoop ==
    /\ \A k \in 1..Len(events) :
          (IsCall(events[k], FrameOps) /\ events[k].n > 1) =>
              /\ Len(verdicts) >= events[k].n - 1
              /\ ~verdicts[events[k].n - 1].isValid
    /\ (thrown # NULL /\ thrown[1].stage \in FrameOps \cup {"validateImage"}) =>
          LET calls == CallsIn(events)
              last == calls[Len(calls)]
          IN /\ pc = "idle"
             /\ ~isLoading
             /\ last.op = thrown[1].stage
             /\ last.n = Len(verdicts) + 1
             /\ CallCount(events, FrameOps) = Len(verdicts) + 1
             /\ CallCount(events, {"validateImage"})
                   = Len(verdicts) + (IF thrown[1].stage = "validateImage" THEN 1 ELSE 0)
             /\ result = NULL

\* The frame generation of the third attempt threw.
C25_Witness ==
    /\ thrown # NULL
    /\ thrown[1].stage \in FrameOps
    /\ Len(verdicts) = 2
    /\ CallCount(events, FrameOps) = 3

\* The frame generation calls of the trace ev, in order.
IsFrameCall(e) == IsCall(e, FrameOps)

FrameCallsIn(ev) == SelectSeq(ev, IsFrameCall)

\* The loop has been left without a throw.
AfterQcLoop == pc \in {"script", "videoSubmit", "pollWait", "pollQuery", "videoFetch",
                       "videoBlob", "speech", "assets"}

\* The frame f is the one the last attempt of the loop produced: the
\* response to the last frame generation call, whose verdict is the last.
IsLastAttemptsFrame(f) ==
    LET calls == FrameCallsIn(events)
        last == calls[Len(calls)]
    IN /\ f.attempt = Len(verdicts)
       /\ f.attempt = last.n
       /\ f.gen = last.op
       /\ f.prompt = last.arg
       /\ verdicts[f.attempt].isValid \/ f.attempt = MAX_ATTEMPTS

\* C26: the frame held after the QC loop, the frame passed to the video
\* job and the frame exposed as opening_frame_image_url are the frame the
\* last executed attempt produced: the validated one, or the third after
\* three invalid verdicts.
C26_LastAttemptsFrame ==
    /\ AfterQcLoop => IsLastAttemptsFrame(openingFrameData[1])
    /\ \A k \in 1..Len(events) :
          IsCall(events[k], {"generateVideos"}) => events[k].n = Len(verdicts)
    /\ result # NULL =>
          /\ IsLastAttemptsFrame(result[1].opening_frame_image_url)
          /\ CallCount(events, {"generateVideos"}) = 1

\* A run delivered the frame of its third attempt.
C26_Witness ==
    /\ result # NULL
    /\ result[1].opening_frame_image_url.attempt = 3
    /\ verdicts[3].isValid

\* C27: while validation is awaited and whenever the QC loop has been left
\* without a throw, a frame is held, and no run aborts with 'Failed to
\* generate a valid opening frame.'.
C27_FrameExistsAfterLoop ==
    /\ (pc = "validate" \/ AfterQcLoop) => openingFrameData # NULL
    /\ thrown # NULL =>
          /\ thrown[1].message # <<"Failed to generate a valid opening frame.">>
          /\ thrown[1].stage # "handleGenerateAd"
    /\ result # NULL => openingFrameData # NULL

\* The loop was left after three invalid verdicts and the run goes on.
C27_Witness ==
    /\ pc = "script"
    /\ AllInvalid
    /\ openingFrameData # NULL

\* The frame generation the run's input selects.
BranchOf(d) == IF d.actorImage THEN "generateOpeningFrameWithActor" ELSE "generateImage"

\* C28: every frame generation call of a run is the one its input selects:
\* the actor composite when an actor image was supplied, else the prompt-only
\* generation; and every prompt-only frame was generated with the user's
\* aspect ratio.
C28_BranchFixedForRun ==
    /\ \A k \in 1..Len(events) :
          IsCall(events[k], FrameOps) => events[k].op = BranchOf(data)
    /\ pc \in {"genFrame", "validate"} => actorImageData = data.actorImage
    /\ openingFrameData # NULL =>
          /\ openingFrameData[1].gen = BranchOf(data)
          /\ ~data.actorImage => openingFrameData[1].aspectRatio = data.aspectRatio

\* Three attempts of a run with an actor image, all of them composites.
C28_Witness ==
    /\ data.actorImage
    /\ pc = "validate"
    /\ i = 3
    /\ CallCount(events, {"generateOpeningFrameWithActor"}) = 3
    /\ openingFrameData[1].attempt = 3

\* C29: error and result are never both set; both are null throughout a
\* run, whatever an earlier run left; result is set only by a run that did
\* not throw, as the last thing before the reset, and error only by a run
\* that threw, so that a failed run leaves no FinalOutput.
C29_ErrorExcludesResult ==
    /\ ~(error # NULL /\ result # NULL)
    /\ isLoading => (error = NULL /\ result = NULL)
    /\ result # NULL =>
          /\ thrown = NULL
          /\ pc = "idle"
          /\ Len(events) >= 2
          /\ events[Len(events) - 1] = Outcome("setResult")
          /\ events[Len(events)] = Reset
    /\ error # NULL => (thrown # NULL /\ pc = "idle")
    /\ (thrown # NULL /\ pc = "idle") => (error # NULL /\ result = NULL)

\* A run failed at its last stage: an error and no FinalOutput.
C29_Witness ==
    /\ error # NULL
    /\ result = NULL
    /\ ~isLoading
    /\ thrown # NULL
    /\ thrown[1].stage = "generateAdAssets"

\* The first progress update of a run, and the publication of its outcome.
IsFirstUpdate(e) == e.t = "progress" /\ e.step = 1

IsOutcome(e) == e.t = "outcome"

C33_FlagNotFalseAfterSuccess ==
    result # NULL => apiKeySelected # "false"

\* The prompt and the note the QC loop has computed from the concept c and
\* the verdicts vs, by the loop's own rules.
RECURSIVE PromptFrom(_, _)
PromptFrom(c, vs) ==
    IF vs = <<>> THEN c.openingFramePrompt
    ELSE PromptAfter(PromptFrom(c, SubSeq(vs, 1, Len(vs) - 1)), Len(vs), vs[Len(vs)])

RECURSIVE NotesFrom(_)
NotesFrom(vs) ==
    IF vs = <<>> THEN <<"QC passed on first attempt.">>
    ELSE QcNotesAfter(NotesFrom(SubSeq(vs, 1, Len(vs) - 1)), Len(vs), vs[Len(vs)])

\* The FinalOutput of a run with input d whose concept call returned c,
\* whose validations returned vs and whose asset call returned assets.
OutputOf(d, c, vs, assets) ==
    [opening_frame_prompt |-> PromptFrom(c, vs),
     opening_frame_image_url |->
         [gen |-> BranchOf(d),
          prompt |-> PromptFrom(c, SubSeq(vs, 1, Len(vs) - 1)),
          attempt |-> Len(vs),
          mimeType |-> IF d.actorImage THEN "provider" ELSE "image/jpeg",
          aspectRatio |-> IF d.actorImage THEN "" ELSE d.aspectRatio],
     veo_prompt |-> <<"veo prompt">>,
     qc_notes |-> NotesFrom(vs),
     aspect_ratio |-> d.aspectRatio,
     ad_copy_variations |-> assets.adCopyVariations,
     hashtags |-> assets.hashtags,
     voiceover_audio_url |-> IF d.generateVoiceover THEN Some("blob:voiceover") ELSE NULL]

\* C31: the outcome of a run is a function of the run's own input and of
\* the responses it received: the amended prompt and the note are those the
\* loop computes from this run's concept and verdicts, the FinalOutput is
\* the one this run's input and responses give, and the error is the
\* surfaced message of this run's throw; what an earlier run left (its
\* prompt with fixes, note, result, error) appears in none of them.
C31_OutcomeOfThisRunOnly ==
    /\ (pc \in {"genFrame", "validate"} \/ AfterQcLoop) =>
          /\ openingFramePrompt = PromptFrom(conceptSeen[1], verdicts)
          /\ qcNotes = NotesFrom(verdicts)
    /\ result # NULL =>
          result[1] = OutputOf(data, conceptSeen[1], verdicts, assetsSeen[1])
    /\ error # NULL =>
          /\ thrown # NULL
          /\ error[1] = SurfacedError(thrown[1].message)
    /\ (pc = "idle" /\ thrown = NULL) => error = NULL

\* A run delivered after retries although an earlier run had failed with a
\* credential error, the only way the flag is false outside AI Studio.
C31_Witness ==
    /\ ~aistudio
    /\ apiKeySelected = "false"
    /\ result # NULL
    /\ Len(verdicts) = 3
    /\ ~verdicts[1].isValid
    /\ error = NULL

\* What each component shows: the state of App and that of ModelCreator.
AppShown == <<isLoading, progress, error, result, apiKeySelected>>

McShown == <<mcResult, promptHistory, mcError, mcIsLoading, isEditing>>

\* The step belongs to the Model Creator, or to the pipeline.
IsMcStep == mcVars' # mcVars

IsPipelineStep == <<pc, locals, events, mounted>>' # <<pc, locals, events, mounted>>

\* C32: a Model Creator step (generate, edit, their success and failure)
\* leaves isLoading, progress, error, result and apiKeySelected of the
\* application and the position of its run unchanged; a pipeline step
\* leaves the Model Creator's result, history, error, isLoading and
\* isEditing unchanged; no step belongs to both.
C32_NoSharedState ==
    [][/\ IsMcStep => UNCHANGED <<AppShown, pc, locals>>
       /\ IsPipelineStep => UNCHANGED <<McShown, mcVars>>
       /\ AppShown' # AppShown => UNCHANGED McShown
       /\ McShown' # McShown => UNCHANGED AppShown
      ]_vars

\* A pipeline run, a generation and an edit are in flight at once.
C32_Witness ==
    /\ isLoading
    /\ pc = "validate"
    /\ mcIsLoading
    /\ genPc = "generateModelImage"
    /\ isEditing
    /\ editPc = "editModelImage"

\* The step starts an edit call, a generation; the step is an ignored edit
\* submission, a refused generation submission.
EditStarts == editPc = "idle" /\ editPc' = "editModelImage"

EditIsIgnored == lastEdit' = "ignored" /\ lastEdit # "ignored"

GenerationRefused == mcAlerted' /\ ~mcAlerted

\* C34: an edit call starts only with a result and an instruction that is
\* not blank, and an edit submission that is ignored (blank instruction, or
\* no result) changes nothing of the Model Creator and starts no call; a
\* generation starts only with both files, and a generation submission
\* without both changes nothing and starts no call.
C34_RefusedSubmissionsChangeNothing ==
    [][/\ EditStarts => (Trim(editPrompt) # <<>> /\ mcResult # NULL)
       /\ EditIsIgnored =>
             /\ Trim(editPrompt) = <<>> \/ mcResult = NULL
             /\ UNCHANGED <<mcState, mcHandlers, genCount, editCount>>
       /\ (handleEditSubmit /\ (Trim(editPrompt) = <<>> \/ mcResult = NULL)) =>
             UNCHANGED <<mcState, mcHandlers>>
       /\ GenerationStarts => (fashionPhoto /\ headshot)
       /\ GenerationRefused =>
             /\ ~fashionPhoto \/ ~headshot
             /\ UNCHANGED <<mcState, mcHandlers, genCount, editCount>>
       /\ (mcHandleSubmit /\ (~fashionPhoto \/ ~headshot)) =>
             UNCHANGED <<mcResult, promptHistory, mcError, genPc, editPc>>
      ]_vars

\* A whitespace-only edit was ignored and a generation without the headshot
\* refused, with the first generation's result and history still shown.
C34_Witness ==
    /\ lastEdit = "ignored"
    /\ editPrompt = <<" ">>
    /\ mcAlerted
    /\ ~headshot
    /\ mcResult # NULL
    /\ promptHistory = <<GenerationPrompt(1)>>
    /\ editCount = 0
====
